---------------------------- MODULE Spec2Model ----------------------------
(***************************************************************************)
(* A model of the instrument glue code of the Majorana measurement setup:  *)
(*   fast_diagrams.py            fast_charge_diagram, prepare_measurement  *)
(*   reload_settings.py          the reload_* functions, qdac_slopes,      *)
(*                               check_unused_qdac_channels                *)
(*   pulsed_experiment_simple.py sendSequenceToAWG, correctMeasTime,       *)
(*                               makeSimpleSequence                        *)
(*                                                                         *)
(* Python floats are modelled as exact rationals <<numerator, denominator>>*)
(* in lowest terms with a positive denominator (real-number arithmetic,    *)
(* no rounding).  Instruments are modelled by the parameters the code sets *)
(* on them and by the log of the calls the code makes, in program order.   *)
(***************************************************************************)
EXTENDS Integers, Sequences, FiniteSets, TLC

VARIABLES
    \* ---- fast_diagrams.py ----
    fpc,        \* position of fast_charge_diagram: idle / do1d / returned / raised
    fexc,       \* the exception that reached the caller of fast_charge_diagram
    fargs,      \* the arguments of the call (and what the instruments answered)
    fcalls,     \* the instrument calls made by the call so far, in program order
    keysight,   \* the generator's parameters
    zi,         \* the acquisition unit's parameters
    hwEntry,    \* <<keysight, zi>> as they were when the call was entered
    do1d_outcome \* how the delegated do1d ended: none / returned /
                \* KeyboardInterrupt / Exception

fvars == <<fpc, fexc, fargs, fcalls, keysight, zi, hwEntry, do1d_outcome>>

VARIABLES
    \* ---- reload_settings.py ----
    configs,    \* the content of the configuration file (Config.default)
    qdac,       \* the voltage source: division value, validators, labels
    qdac_latest,\* the last-known (cached) voltage of every channel
    qdac_live,  \* the voltage every channel really has
    lockin_topo, lockin_r, dmm_top,   \* the lock-ins and the multimeter
    rop,        \* the operation of reload_settings.py that ran last
    rprev,      \* the operation that ran before it
    rexc,       \* the exception it ended with
    rchan,      \* the channel reload_QDAC_settings failed at (0: none)
    reloaded,   \* the reload functions that have run so far
    warnings,   \* the warnings logged by the last check_unused_qdac_channels
    qcalls,     \* the calls it made on the voltage source, in order
    slopes      \* the mapping returned by the last qdac_slopes

rvars == <<configs, qdac, qdac_latest, qdac_live, lockin_topo, lockin_r,
           dmm_top, rop, rprev, rexc, rchan, reloaded, warnings, qcalls,
           slopes>>

VARIABLES
    \* ---- pulsed_experiment_simple.py ----
    awg,        \* the waveform generator: clock, channel 1 range, loaded file
    seq,        \* the sequence handed to sendSequenceToAWG
    acalls,     \* the calls sendSequenceToAWG made, in program order
    aexc,       \* the exception sendSequenceToAWG ended with
    mcall,      \* the last call of correctMeasTime: arguments and result
    scall       \* the last call of makeSimpleSequence: arguments and result

avars == <<awg, seq, acalls, aexc>>
mvars == <<mcall>>
svars == <<scall>>

vars == <<fvars, rvars, avars, mvars, svars>>

\* what the operations of one file leave alone
notFast == <<rvars, avars, mvars, svars>>
notReload == <<fvars, avars, mvars, svars>>
notAwg == <<fvars, rvars, mvars, svars>>
notMeas == <<fvars, rvars, avars, svars>>
notSimple == <<fvars, rvars, avars, mvars>>

-----------------------------------------------------------------------------
(* Exact rational arithmetic.                                               *)

Abs(i) == IF i < 0 THEN -i ELSE i

RECURSIVE GCD(_, _)
GCD(a, b) == IF b = 0 THEN a ELSE GCD(b, a % b)

R(n, d) ==
    LET g == GCD(Abs(n), Abs(d))
        s == IF d < 0 THEN -1 ELSE 1
    IN  <<(s * n) \div g, (s * d) \div g>>

RInt(i) == <<i, 1>>

RAdd(x, y) ==
    LET g == GCD(x[2], y[2])
    IN  R(x[1] * (y[2] \div g) + y[1] * (x[2] \div g), (x[2] \div g) * y[2])

RNeg(x) == <<-x[1], x[2]>>

RSub(x, y) == RAdd(x, RNeg(y))

RMul(x, y) ==
    LET a == R(x[1], y[2])
        b == R(y[1], x[2])
    IN  R(a[1] * b[1], a[2] * b[2])

\* x / y; the caller guards y # 0 (Python raises ZeroDivisionError)
RDiv(x, y) == RMul(x, R(y[2], y[1]))

RAbs(x) == <<Abs(x[1]), x[2]>>

RLess(x, y) == x[1] * y[2] < y[1] * x[2]


-----------------------------------------------------------------------------
(* fast_diagrams.py                                                         *)

\* One instrument call: a parameter set, a parameter get, or a method call.
SetPar(dev, par, val) == [dev |-> dev, op |-> "set", par |-> par, val |-> val]
GetPar(dev, par) == [dev |-> dev, op |-> "get", par |-> par, val |-> "-"]
CallOf(dev, par) == [dev |-> dev, op |-> "call", par |-> par, val |-> "-"]

NoException == [type |-> "none", msg |-> ""]
ValueError(msg) == [type |-> "ValueError", msg |-> msg]
KeyboardInterrupt == [type |-> "KeyboardInterrupt", msg |-> ""]
OtherException == [type |-> "Exception", msg |-> "raised by do1d"]

\* The scope_signal argument: isList says whether the caller passed a list;
\* items are the list's elements, or the single value itself when it is no
\* list (lines 72-73 wrap it).
ScopeSignalItems(scope_signal) == scope_signal.items

\* lines 69-76: the argument checks, in the order of the code.  This variant
\* forgets the check of the (wrapped) signal list.
ValidationError_channelOnly(keysight_channel, scope_signal) ==
    IF keysight_channel \notin {"ch01", "ch02"}
    THEN ValueError("Invalid keysight channel. Must be either ch01 or ch02.")
    ELSE NoException

ValidationError(keysight_channel, scope_signal) ==
    IF keysight_channel \notin {"ch01", "ch02"}
    THEN ValueError("Invalid keysight channel. Must be either ch01 or ch02.")
    ELSE IF Len(ScopeSignalItems(scope_signal)) = 0
         THEN ValueError("Select valid scope signal(s).")
         ELSE NoException

\* lines 81-91
ScopeLengthSet(zi_scope_length) ==
    IF zi_scope_length < 4096 THEN 4096 ELSE zi_scope_length

ScopeSetup(a) ==
    << SetPar("zi", "scope_samplingrate", a.zi_samplingrate),
       SetPar("zi", "scope_length", ScopeLengthSet(a.zi_scope_length)),
       CallOf("zi", "daq.sync"),
       GetPar("zi", "scope_duration") >>

\* lines 92-95
scope_duration_compensated(a) ==
    RAdd(RAdd(a.trigger_holdoff, a.scope_duration), a.zi_trig_delay)

key_frequency(a) == RDiv(RInt(1), scope_duration_compensated(a))

\* the ratio the comment of line 95 words: dead time / measurement time
asym_deadOverMeas(trigger_holdoff, duration_compensated) ==
    RDiv(trigger_holdoff, RSub(duration_compensated, trigger_holdoff))

asym(trigger_holdoff, duration_compensated) ==
    RDiv(trigger_holdoff, duration_compensated)

\* the amplitude without the voltage multiplier
keysight_amplitude_unscaled(a) == RAbs(RSub(a.fast_v_stop, a.fast_v_start))

\* lines 100-103
fast_v_start_scaled(a) == RMul(a.keysight_voltage_multiplier, a.fast_v_start)
fast_v_stop_scaled(a) == RMul(a.keysight_voltage_multiplier, a.fast_v_stop)
keysight_amplitude(a) == RAbs(RSub(fast_v_stop_scaled(a), fast_v_start_scaled(a)))
key_offset(a) == RAdd(fast_v_start_scaled(a), RDiv(keysight_amplitude(a), RInt(2)))

\* 100*(1-asym) and 180*(1+asym), lines 128-129 and 139-140
ramp_symmetry(a) ==
    RMul(RInt(100),
         RSub(RInt(1), asym(a.trigger_holdoff, scope_duration_compensated(a))))
ramp_phase(a) ==
    RMul(RInt(180),
         RAdd(RInt(1), asym(a.trigger_holdoff, scope_duration_compensated(a))))

\* lines 106-121: the trigger setup without the level and the delay of
\* lines 123-124
TriggerSetup_withoutLevelAndDelay(a) ==
    << SetPar("zi", "scope_channels", 3),
       SetPar("zi", "scope_trig_holdoffseconds", a.trigger_holdoff),
       SetPar("zi", "scope_trig_enable", "ON"),
       SetPar("zi", "scope_trig_signal", a.zi_trig_signal),
       SetPar("zi", "scope_trig_slope", "Rise"),
       SetPar("zi", "scope_trig_hystmode", "absolute"),
       SetPar("zi", "scope_trig_hystabsolute", a.zi_trig_hyst),
       SetPar("zi", "scope_trig_gating_enable", "OFF"),
       SetPar("zi", "scope_trig_holdoffmode", "s"),
       SetPar("zi", "scope_trig_reference", 0),
       SetPar("zi", "scope_segments", "ON"),
       SetPar("zi", "scope_segments_count", a.n_averages),
       CallOf("zi", "daq.sync") >>

\* lines 106-125
TriggerSetup(a) ==
    << SetPar("zi", "scope_channels", 3),
       SetPar("zi", "scope_trig_holdoffseconds", a.trigger_holdoff),
       SetPar("zi", "scope_trig_enable", "ON"),
       SetPar("zi", "scope_trig_signal", a.zi_trig_signal),
       SetPar("zi", "scope_trig_slope", "Rise"),
       SetPar("zi", "scope_trig_hystmode", "absolute"),
       SetPar("zi", "scope_trig_hystabsolute", a.zi_trig_hyst),
       SetPar("zi", "scope_trig_gating_enable", "OFF"),
       SetPar("zi", "scope_trig_holdoffmode", "s"),
       SetPar("zi", "scope_trig_reference", 0),
       SetPar("zi", "scope_segments", "ON"),
       SetPar("zi", "scope_segments_count", a.n_averages),
       SetPar("zi", "scope_trig_level", a.zi_trig_level),
       SetPar("zi", "scope_trig_delay", a.zi_trig_delay),
       CallOf("zi", "daq.sync") >>

\* lines 126-159; the final else is dead code after the check of line 69
KeysightSetup(a) ==
    IF a.keysight_channel = "ch01"
    THEN << SetPar("keysight", "ch1_function_type", "RAMP"),
            SetPar("keysight", "ch1_ramp_symmetry", ramp_symmetry(a)),
            SetPar("keysight", "ch1_phase", ramp_phase(a)),
            SetPar("keysight", "ch1_amplitude_unit", "VPP"),
            SetPar("keysight", "ch1_amplitude", keysight_amplitude(a)),
            SetPar("keysight", "ch1_offset", key_offset(a)),
            SetPar("keysight", "ch1_frequency", key_frequency(a)),
            SetPar("keysight", "sync_source", 1),
            SetPar("keysight", "ch1_output", "ON"),
            SetPar("keysight", "ch2_function_type", "RAMP"),
            SetPar("keysight", "ch2_ramp_symmetry", ramp_symmetry(a)),
            SetPar("keysight", "ch2_phase", ramp_phase(a)),
            SetPar("keysight", "ch2_output_polarity", "INV"),
            SetPar("keysight", "ch2_amplitude_unit", "VPP"),
            SetPar("keysight", "ch2_amplitude",
                   RMul(keysight_amplitude(a), a.comp_scale)),
            SetPar("keysight", "ch2_frequency", key_frequency(a)),
            SetPar("keysight", "ch2_output", "ON"),
            CallOf("keysight", "sync_phase") >>
    ELSE << >>

\* lines 4-23, prepare_measurement for the averager of scope channel ch
\* (called with add_offset left at its default, True)
prepare_measurement(a, ch) ==
    LET avg == IF ch = 1 THEN "scope_avg_ch1" ELSE "scope_avg_ch2"
        offset == a.qdac_fast_value
    IN  << CallOf("zi", "Scope.prepare_scope"),
           GetPar("qdac_fast_channel", "get"),
           SetPar(avg, "make_setpoints",
                  << RAdd(a.fast_v_start, offset), RAdd(a.fast_v_stop, offset),
                     a.zi_scope_length >>),
           SetPar(avg, "setpoint_names", "keysight_voltage"),
           SetPar(avg, "setpoint_labels", a.qdac_fast_label),
           SetPar(avg, "setpoint_units", "V") >>

\* lines 165-179, one pass of the loop for the signal at (1-based) position ch
SignalSetup(a, ch) ==
    LET sig == ScopeSignalItems(a.scope_signal)[ch]
    IN  << SetPar("zi", IF ch = 1 THEN "scope_channel1_input"
                                  ELSE "scope_channel2_input", sig),
           SetPar(IF ch = 1 THEN "scope_avg_ch1" ELSE "scope_avg_ch2",
                  "label", sig) >>
        \o prepare_measurement(a, ch)

\* the loop of line 165 raises at the third signal (line 171)
TooManySignals(a) == Len(ScopeSignalItems(a.scope_signal)) > 2

SignalsSetup(a) ==
    LET n == Len(ScopeSignalItems(a.scope_signal))
    IN  (IF n >= 1 THEN SignalSetup(a, 1) ELSE << >>)
        \o (IF n >= 2 THEN SignalSetup(a, 2) ELSE << >>)

\* lines 197-203: the sweep is delegated to do1d with the averagers and tasks
Do1dCall(a) ==
    LET n == Len(ScopeSignalItems(a.scope_signal))
    IN  [dev |-> "do1d", op |-> "call", par |-> "do1d",
         val |-> <<n, a.has_tasks>>]

\* lines 205-208 and 211-214: the same two branches on both exit paths
OutputOff(a) ==
    IF a.keysight_channel = "ch01"
    THEN << SetPar("keysight", "ch1_output", "OFF") >>
    ELSE IF a.keysight_channel = "ch02"
         THEN << SetPar("keysight", "ch2_output", "OFF") >>
         ELSE << >>

\* The effect of the parameter sets of a call log on one device's parameters.
RECURSIVE ApplyFrom(_, _, _, _)
ApplyFrom(hw, dev, log, i) ==
    IF i > Len(log) THEN hw
    ELSE LET c == log[i]
         IN  ApplyFrom(IF c.dev = dev /\ c.op = "set"
                       THEN [hw EXCEPT ![c.par] = c.val] ELSE hw,
                       dev, log, i + 1)

ApplyCalls(hw, dev, log) == ApplyFrom(hw, dev, log, 1)

\* The argument values the model draws from.  Times are in seconds, voltages
\* in volts.
KeysightChannelArgs == {"ch01", "ch02", "ch03"}
ScopeSignalArgs ==
    { [isList |-> TRUE, items |-> << >>],
      [isList |-> TRUE, items |-> <<"Demod 1 R">>],
      [isList |-> TRUE, items |-> <<"Demod 1 R", "Signal Input 2">>],
      [isList |-> TRUE, items |-> <<"Demod 1 R", "Signal Input 2", "Trig Input 1">>],
      [isList |-> FALSE, items |-> <<"Demod 1 R">>] }
HoldoffArgs == { R(60, 1000000), R(100, 1000000) }
ScopeDurations == { R(40, 1000000), R(4096, 14062500) }
TrigDelayArgs == { RInt(0), R(6, 10000000) }
VStartArgs == { R(-1, 10), RInt(0) }
VStopArgs == { R(1, 10), R(-1, 5) }
MultiplierArgs == { RInt(1), RInt(5), RInt(-1) }
ScopeLengthArgs == { 1000, 8192 }
QdacFastValues == { R(1, 2) }

FastArgs ==
    [ keysight_channel : KeysightChannelArgs,
      scope_signal : ScopeSignalArgs,
      trigger_holdoff : HoldoffArgs,
      scope_duration : ScopeDurations,
      zi_trig_delay : TrigDelayArgs,
      fast_v_start : VStartArgs,
      fast_v_stop : VStopArgs,
      keysight_voltage_multiplier : MultiplierArgs,
      comp_scale : { R(1, 2) },
      zi_scope_length : ScopeLengthArgs,
      zi_samplingrate : { "14.0 MHz" },
      zi_trig_signal : { "Trig Input 1" },
      zi_trig_hyst : { RInt(0) },
      zi_trig_level : { R(1, 2) },
      n_averages : { 100 },
      has_tasks : { FALSE },
      qdac_fast_value : QdacFastValues,
      qdac_fast_label : { "Fast gate" } ]

NoFastArgs ==
    [ keysight_channel |-> "ch01",
      scope_signal |-> [isList |-> TRUE, items |-> << >>],
      trigger_holdoff |-> RInt(0), scope_duration |-> RInt(1),
      zi_trig_delay |-> RInt(0), fast_v_start |-> RInt(0),
      fast_v_stop |-> RInt(0), keysight_voltage_multiplier |-> RInt(1),
      comp_scale |-> RInt(1), zi_scope_length |-> 4096,
      zi_samplingrate |-> "14.0 MHz", zi_trig_signal |-> "Trig Input 1",
      zi_trig_hyst |-> RInt(0), zi_trig_level |-> R(1, 2), n_averages |-> 1,
      has_tasks |-> FALSE, qdac_fast_value |-> RInt(0),
      qdac_fast_label |-> "Fast gate" ]

\* The generator as the call finds it: any of its two channel outputs may
\* have been left on or off by earlier use.
KeysightStates ==
    { [ ch1_function_type |-> "SIN", ch1_ramp_symmetry |-> RInt(100),
        ch1_phase |-> RInt(0), ch1_amplitude_unit |-> "VPP",
        ch1_amplitude |-> R(1, 10), ch1_offset |-> RInt(0),
        ch1_frequency |-> RInt(1000), ch1_output |-> o1,
        ch2_function_type |-> "SIN", ch2_ramp_symmetry |-> RInt(100),
        ch2_phase |-> RInt(0), ch2_amplitude_unit |-> "VPP",
        ch2_amplitude |-> R(1, 10), ch2_frequency |-> RInt(1000),
        ch2_output_polarity |-> "NORM", ch2_output |-> o2,
        sync_source |-> 1, sync_output |-> "OFF" ]
      : o1 \in {"ON", "OFF"}, o2 \in {"ON", "OFF"} }

AveragerIdle ==
    [ label |-> "", make_setpoints |-> <<RInt(0), RInt(0), 0>>,
      setpoint_names |-> "", setpoint_labels |-> "", setpoint_units |-> "" ]

ZiIdle ==
    [ zi |->
        [ scope_samplingrate |-> "1.80 GHz", scope_length |-> 4096,
          scope_channels |-> 1, scope_trig_holdoffseconds |-> RInt(0),
          scope_trig_enable |-> "OFF", scope_trig_signal |-> "Trig Input 2",
          scope_trig_slope |-> "None", scope_trig_hystmode |-> "relative",
          scope_trig_hystabsolute |-> RInt(0),
          scope_trig_gating_enable |-> "ON", scope_trig_holdoffmode |-> "events",
          scope_trig_reference |-> 50, scope_segments |-> "OFF",
          scope_segments_count |-> 1, scope_trig_level |-> RInt(0),
          scope_trig_delay |-> RInt(0), scope_channel1_input |-> "Signal Input 1",
          scope_channel2_input |-> "Signal Input 1" ],
      scope_avg_ch1 |-> AveragerIdle,
      scope_avg_ch2 |-> AveragerIdle ]

ApplyToZi(z, log) ==
    [ dev \in DOMAIN z |-> ApplyCalls(z[dev], dev, log) ]

FastIdle ==
    /\ fpc = "idle"
    /\ fexc = NoException
    /\ fargs = NoFastArgs
    /\ fcalls = << >>
    /\ keysight \in KeysightStates
    /\ zi = ZiIdle
    /\ hwEntry = <<keysight, zi>>
    /\ do1d_outcome = "none"

\* fast_charge_diagram, lines 65-203: from the entry to the point where the
\* sweep is delegated to do1d, or to the exception that ends the call early.
FastChargeDiagram(a) ==
    /\ fpc = "idle"
    /\ fargs' = a
    /\ hwEntry' = <<keysight, zi>>
    /\ UNCHANGED <<do1d_outcome, notFast>>
    /\ LET err == ValidationError(a.keysight_channel, a.scope_signal)
           setup == ScopeSetup(a) \o TriggerSetup(a) \o KeysightSetup(a)
                    \o SignalsSetup(a)
           log == IF err # NoException THEN << >>
                  ELSE IF TooManySignals(a) THEN setup
                  ELSE setup \o << SetPar("keysight", "sync_output", "ON"),
                                   Do1dCall(a) >>
       IN  /\ fcalls' = log
           /\ keysight' = ApplyCalls(keysight, "keysight", log)
           /\ zi' = ApplyToZi(zi, log)
           /\ fexc' = IF err # NoException THEN err
                      ELSE IF TooManySignals(a)
                           THEN ValueError("Select only one or two scope signals.")
                           ELSE NoException
           /\ fpc' = IF err # NoException \/ TooManySignals(a)
                     THEN "raised" ELSE "do1d"

\* lines 204-208 and 217: do1d returns, the output is switched off
Do1dReturns ==
    /\ fpc = "do1d"
    /\ LET log == OutputOff(fargs)
       IN  /\ fcalls' = fcalls \o log
           /\ keysight' = ApplyCalls(keysight, "keysight", log)
    /\ fpc' = "returned"
    /\ do1d_outcome' = "returned"
    /\ UNCHANGED <<fexc, fargs, zi, hwEntry, notFast>>

\* lines 210-216: do1d is interrupted by the user
Do1dInterrupted ==
    /\ fpc = "do1d"
    /\ LET log == OutputOff(fargs)
       IN  /\ fcalls' = fcalls \o log
           /\ keysight' = ApplyCalls(keysight, "keysight", log)
    /\ fpc' = "raised"
    /\ fexc' = KeyboardInterrupt
    /\ do1d_outcome' = "KeyboardInterrupt"
    /\ UNCHANGED <<fargs, zi, hwEntry, notFast>>

\* any other exception of do1d passes the try statement of line 197 unhandled
Do1dRaises ==
    /\ fpc = "do1d"
    /\ fpc' = "raised"
    /\ fexc' = OtherException
    /\ do1d_outcome' = "Exception"
    /\ UNCHANGED <<fargs, fcalls, keysight, zi, hwEntry, notFast>>

-----------------------------------------------------------------------------
(* Properties of fast_charge_diagram                                        *)

\* the values the call has set parameter par of device dev to
SetValues(dev, par) ==
    { fcalls[i].val :
        i \in { j \in 1..Len(fcalls) :
                  /\ fcalls[j].dev = dev
                  /\ fcalls[j].op = "set"
                  /\ fcalls[j].par = par } }

\* the generator channel outputs the call has switched on
SwitchedOn ==
    { o \in {"ch1_output", "ch2_output"} : "ON" \in SetValues("keysight", o) }

\* C1: whenever the delegated sweep is interrupted (KeyboardInterrupt) after
\* the generator outputs were switched on, every generator channel output
\* that the call switched on is off when the interruption reaches the caller,
\* and the caller receives the KeyboardInterrupt.
C1_InterruptSwitchesOutputsOff ==
    do1d_outcome = "KeyboardInterrupt" =>
        /\ fpc = "raised"
        /\ fexc = KeyboardInterrupt
        /\ \A o \in SwitchedOn : keysight[o] = "OFF"

\* C2: a call with a generator channel other than ch01 and ch02, or with an
\* empty list of acquisition signals, ends with a ValueError, and no parameter
\* of the acquisition unit or of the generator has been set: both are as
\* they were when the call was entered.
C2_InvalidArgumentsFailFast ==
    ( /\ fpc # "idle"
      /\ \/ fargs.keysight_channel \notin {"ch01", "ch02"}
         \/ fargs.scope_signal.isList /\ Len(fargs.scope_signal.items) = 0 )
    => /\ fpc = "raised"
       /\ fexc.type = "ValueError"
       /\ { i \in 1..Len(fcalls) : fcalls[i].op = "set" } = {}
       /\ <<keysight, zi>> = hwEntry

C2_Witness ==
    /\ fpc = "raised"
    /\ fargs.keysight_channel = "ch01"
    /\ fargs.scope_signal.isList
    /\ Len(fargs.scope_signal.items) = 0
    /\ fexc = ValueError("Select valid scope signal(s).")
    /\ keysight.ch1_output = "ON"

\* C9: the ramp frequency set on the generator is 1/(holdoff + scope_duration
\* + trig_delay), the ramp symmetry is 100*(1 - asymmetry) and the phase is
\* 180*(1 + asymmetry) with asymmetry = holdoff/(holdoff + scope_duration +
\* trig_delay); every call that configures the ramp (channel ch01) sets
\* exactly these values, and for holdoff 60e-6, scope duration 40e-6 and
\* trigger delay 0 they are 10000, 40 and 288 (asymmetry 0.6).
C9_RampTiming ==
    LET T == RAdd(RAdd(fargs.trigger_holdoff, fargs.scope_duration),
                  fargs.zi_trig_delay)
        asymmetry == RDiv(fargs.trigger_holdoff, T)
        freq == RDiv(RInt(1), T)
        symm == RMul(RInt(100), RSub(RInt(1), asymmetry))
        phase == RMul(RInt(180), RAdd(RInt(1), asymmetry))
        configured == /\ fpc # "idle"
                      /\ fargs.keysight_channel = "ch01"
                      /\ Len(fargs.scope_signal.items) > 0
    IN  /\ SetValues("keysight", "ch1_frequency") \subseteq {freq}
        /\ SetValues("keysight", "ch2_frequency") \subseteq {freq}
        /\ SetValues("keysight", "ch1_ramp_symmetry") \subseteq {symm}
        /\ SetValues("keysight", "ch2_ramp_symmetry") \subseteq {symm}
        /\ SetValues("keysight", "ch1_phase") \subseteq {phase}
        /\ SetValues("keysight", "ch2_phase") \subseteq {phase}
        /\ configured =>
              /\ SetValues("keysight", "ch1_frequency") = {freq}
              /\ SetValues("keysight", "ch1_ramp_symmetry") = {symm}
              /\ SetValues("keysight", "ch1_phase") = {phase}
              /\ keysight.ch1_frequency = freq
              /\ keysight.ch1_ramp_symmetry = symm
              /\ keysight.ch1_phase = phase
        /\ ( /\ configured
             /\ fargs.trigger_holdoff = R(60, 1000000)
             /\ fargs.scope_duration = R(40, 1000000)
             /\ fargs.zi_trig_delay = RInt(0) )
           => /\ asymmetry = R(6, 10)
              /\ keysight.ch1_frequency = RInt(10000)
              /\ keysight.ch1_ramp_symmetry = RInt(40)
              /\ keysight.ch1_phase = RInt(288)

C9_Witness ==
    /\ fpc = "do1d"
    /\ fargs.keysight_channel = "ch01"
    /\ fargs.trigger_holdoff = R(60, 1000000)
    /\ fargs.scope_duration = R(40, 1000000)
    /\ fargs.zi_trig_delay = RInt(0)
    /\ keysight.ch1_frequency = RInt(10000)
    /\ keysight.ch1_ramp_symmetry = RInt(40)
    /\ keysight.ch1_phase = RInt(288)


\* the positions in the call log of the sets of parameter par of device dev
SetCalls(dev, par) ==
    { i \in 1..Len(fcalls) :
        /\ fcalls[i].dev = dev
        /\ fcalls[i].op = "set"
        /\ fcalls[i].par = par }

\* the positions at which a generator output (a channel output or the sync
\* output) is switched on
OutputOnCalls ==
    { i \in 1..Len(fcalls) :
        /\ fcalls[i].dev = "keysight"
        /\ fcalls[i].op = "set"
        /\ fcalls[i].par \in {"ch1_output", "ch2_output", "sync_output"}
        /\ fcalls[i].val = "ON" }

\* the positions at which the sweep is delegated to do1d
SweepCalls == { i \in 1..Len(fcalls) : fcalls[i].dev = "do1d" }

TriggerParameters ==
    { "scope_trig_enable", "scope_trig_signal", "scope_trig_slope",
      "scope_trig_hystabsolute", "scope_trig_holdoffseconds",
      "scope_segments_count", "scope_trig_level", "scope_trig_delay" }

\* C13: in every run that reaches the sweep, the trigger of the acquisition
\* unit is fully configured (enable, signal, slope, hysteresis, holdoff,
\* segment count, level, delay: each is set) before any generator output is
\* switched on, a generator output is switched on, and every switching on
\* precedes the call of do1d.
C13_TriggerThenOutputThenSweep ==
    SweepCalls # {} =>
        /\ \A p \in TriggerParameters :
              /\ SetCalls("zi", p) # {}
              /\ \A i \in SetCalls("zi", p) : \A o \in OutputOnCalls : i < o
        /\ OutputOnCalls # {}
        /\ \A o \in OutputOnCalls : \A d \in SweepCalls : o < d

C13_Witness ==
    /\ fpc = "do1d"
    /\ fargs.keysight_channel = "ch01"
    /\ Cardinality(OutputOnCalls) = 3
    /\ Cardinality(SweepCalls) = 1
    /\ zi.zi.scope_trig_enable = "ON"
    /\ zi.zi.scope_trig_delay = fargs.zi_trig_delay
    /\ keysight.ch1_output = "ON"
    /\ keysight.sync_output = "ON"

\* the generator parameters of the channel named by a channel identifier
ChannelParameters(keysight_channel) ==
    IF keysight_channel = "ch01"
    THEN [ function_type |-> "ch1_function_type",
           ramp_symmetry |-> "ch1_ramp_symmetry", phase |-> "ch1_phase",
           amplitude |-> "ch1_amplitude", offset |-> "ch1_offset",
           frequency |-> "ch1_frequency", output |-> "ch1_output" ]
    ELSE [ function_type |-> "ch2_function_type",
           ramp_symmetry |-> "ch2_ramp_symmetry", phase |-> "ch2_phase",
           amplitude |-> "ch2_amplitude", offset |-> "ch2_offset",
           frequency |-> "ch2_frequency", output |-> "ch2_output" ]

\* C14: for ch01 and for ch02, by the time the sweep is delegated to do1d the
\* requested generator channel has been configured as a ramp with the
\* computed symmetry, phase, amplitude, offset and frequency, and its output
\* has been switched on.
C14_RequestedChannelIsRamp ==
    SweepCalls # {} =>
        LET P == ChannelParameters(fargs.keysight_channel)
            T == RAdd(RAdd(fargs.trigger_holdoff, fargs.scope_duration),
                      fargs.zi_trig_delay)
            asymmetry == RDiv(fargs.trigger_holdoff, T)
            start == RMul(fargs.keysight_voltage_multiplier, fargs.fast_v_start)
            stop == RMul(fargs.keysight_voltage_multiplier, fargs.fast_v_stop)
            amplitude == RAbs(RSub(stop, start))
            before(par) ==
                { i \in SetCalls("keysight", par) :
                    \A d \in SweepCalls : i < d }
            setBefore(par) == { fcalls[i].val : i \in before(par) }
        IN  /\ fargs.keysight_channel \in {"ch01", "ch02"}
            /\ setBefore(P.function_type) = {"RAMP"}
            /\ setBefore(P.ramp_symmetry) =
                 { RMul(RInt(100), RSub(RInt(1), asymmetry)) }
            /\ setBefore(P.phase) =
                 { RMul(RInt(180), RAdd(RInt(1), asymmetry)) }
            /\ setBefore(P.amplitude) = { amplitude }
            /\ setBefore(P.offset) =
                 { RAdd(start, RDiv(amplitude, RInt(2))) }
            /\ setBefore(P.frequency) = { RDiv(RInt(1), T) }
            /\ setBefore(P.output) = {"ON"}

\* the calls that configure the ramp: those for channel ch01 that pass the
\* argument checks
RampConfigured ==
    /\ fpc # "idle"
    /\ fargs.keysight_channel = "ch01"
    /\ Len(fargs.scope_signal.items) > 0

\* C15 as claimed: for every v_start, v_stop and voltage_multiplier the ramp
\* amplitude set on the generator is |v_stop - v_start| * voltage_multiplier
\* and the ramp offset is voltage_multiplier*v_start + amplitude/2.
C15_AmplitudeTimesMultiplier ==
    LET amplitude == RMul(RAbs(RSub(fargs.fast_v_stop, fargs.fast_v_start)),
                          fargs.keysight_voltage_multiplier)
        offset == RAdd(RMul(fargs.keysight_voltage_multiplier,
                            fargs.fast_v_start),
                       RDiv(amplitude, RInt(2)))
    IN  /\ SetValues("keysight", "ch1_amplitude") \subseteq {amplitude}
        /\ SetValues("keysight", "ch1_offset") \subseteq {offset}
        /\ RampConfigured =>
              /\ keysight.ch1_amplitude = amplitude
              /\ keysight.ch1_offset = offset

\* C15, amended: every call that configures the ramp sets the ramp amplitude
\* to |voltage_multiplier*v_stop - voltage_multiplier*v_start|, which is
\* |v_stop - v_start| * |voltage_multiplier| (the claimed value when the
\* multiplier is not negative), and the ramp offset to
\* voltage_multiplier*v_start + amplitude/2; no call sets another value.
C15_AmplitudeOfScaledEndpoints ==
    LET m == fargs.keysight_voltage_multiplier
        amplitude == RAbs(RSub(RMul(m, fargs.fast_v_stop),
                               RMul(m, fargs.fast_v_start)))
        offset == RAdd(RMul(m, fargs.fast_v_start), RDiv(amplitude, RInt(2)))
    IN  /\ amplitude = RMul(RAbs(RSub(fargs.fast_v_stop, fargs.fast_v_start)),
                            RAbs(m))
        /\ SetValues("keysight", "ch1_amplitude") \subseteq {amplitude}
        /\ SetValues("keysight", "ch1_offset") \subseteq {offset}
        /\ RampConfigured =>
              /\ SetValues("keysight", "ch1_amplitude") = {amplitude}
              /\ SetValues("keysight", "ch1_offset") = {offset}
              /\ keysight.ch1_amplitude = amplitude
              /\ keysight.ch1_offset = offset

C15_Witness ==
    /\ fpc = "do1d"
    /\ fargs.keysight_channel = "ch01"
    /\ fargs.fast_v_start = R(-1, 10)
    /\ fargs.fast_v_stop = R(1, 10)
    /\ fargs.keysight_voltage_multiplier = RInt(-1)
    /\ keysight.ch1_amplitude = R(1, 5)
    /\ keysight.ch1_offset = R(1, 5)


-----------------------------------------------------------------------------
(* reload_settings.py                                                       *)

\* A configuration value is a Python string: a sequence of characters.
DigitChars == <<"0", "1", "2", "3", "4", "5", "6", "7", "8", "9">>
IsDigit(c) == \E i \in 1..10 : DigitChars[i] = c
DigitValue(c) == (CHOOSE i \in 1..10 : DigitChars[i] = c) - 1

RECURSIVE Pow10(_)
Pow10(n) == IF n = 0 THEN 1 ELSE 10 * Pow10(n - 1)

\* the digits of body[i..] appended to acc, a decimal point skipped
RECURSIVE DigitsFrom(_, _, _)
DigitsFrom(body, i, acc) ==
    IF i > Len(body) THEN acc
    ELSE IF body[i] = "." THEN DigitsFrom(body, i + 1, acc)
    ELSE DigitsFrom(body, i + 1, 10 * acc + DigitValue(body[i]))

\* float(s) for the strings of the model: an optional minus sign, digits and
\* at most one decimal point, at least one digit; anything else (the empty
\* string, letters, a lone sign) raises ValueError.  ok = FALSE stands for
\* the ValueError.
Float(s) ==
    LET neg == Len(s) > 0 /\ s[1] = "-"
        body == IF neg THEN Tail(s) ELSE s
        digs == { i \in 1..Len(body) : IsDigit(body[i]) }
        dots == { i \in 1..Len(body) : body[i] = "." }
        ok == /\ Cardinality(digs) >= 1
              /\ Cardinality(dots) <= 1
              /\ Cardinality(digs) + Cardinality(dots) = Len(body)
        frac == IF dots = {} THEN 0
                ELSE Len(body) - (CHOOSE i \in dots : TRUE)
        mag == R(DigitsFrom(body, 1, 0), Pow10(frac))
    IN  IF ok THEN [ok |-> TRUE, val |-> IF neg THEN RNeg(mag) ELSE mag]
        ELSE [ok |-> FALSE, val |-> RInt(0)]

\* int(s) for the strings of the model: an optional minus sign and digits
ParseInt(s) ==
    LET f == Float(s)
    IN  IF f.ok /\ \A i \in 1..Len(s) : s[i] # "."
        THEN [ok |-> TRUE, val |-> f.val[1]]
        ELSE [ok |-> FALSE, val |-> 0]

\* s.split(" "): the pieces between single spaces, the empty ones included
RECURSIVE SplitFrom(_, _, _, _)
SplitFrom(s, i, cur, acc) ==
    IF i > Len(s) THEN Append(acc, cur)
    ELSE IF s[i] = " " THEN SplitFrom(s, i + 1, << >>, Append(acc, cur))
    ELSE SplitFrom(s, i + 1, Append(cur, s[i]), acc)

Split(s) == SplitFrom(s, 1, << >>, << >>)

\* sorted(...) of a set of integers
RECURSIVE Sorted(_)
Sorted(S) ==
    IF S = {} THEN << >>
    ELSE LET m == CHOOSE x \in S : \A y \in S : x <= y
         IN  <<m>> \o Sorted(S \ {m})

SeqRange(q) == { q[i] : i \in 1..Len(q) }

\* the number of channels of the voltage source (qdac.channels)
NumChannels == 48
\* the stop of range(1, 48), line 115
CheckRangeStop == 48
\* the stop of range(1, 49), line 192
ReloadRangeStop == 49

\* lines 10-23
bias_channels(cfg) ==
    << ParseInt(cfg.channel_parameters.topo_bias_channel).val >>

\* lines 26-35: the keys of section QDac Channel Labels, as sorted integers
used_channels(cfg) == Sorted(DOMAIN cfg.labels)

\* lines 52-63
channel_labels(cfg) == cfg.labels

\* lines 80-103: the generic slope for every used channel, then the bias
\* slope for every bias channel; max rampspeed bg is read (line 90) and not
\* used
qdac_slopes(cfg) ==
    LET qdac_slope == Float(cfg.ramp_speeds.max_rampspeed_qdac).val
        bg_slope == Float(cfg.ramp_speeds.max_rampspeed_bg).val
        bias_slope == Float(cfg.ramp_speeds.max_rampspeed_bias).val
        used == SeqRange(used_channels(cfg))
        bias == SeqRange(bias_channels(cfg))
    IN  [ ch \in used \cup bias |->
            IF ch \in bias THEN bias_slope ELSE qdac_slope ]


\* One call on the voltage source made by check_unused_qdac_channels or
\* print_voltages_all.  _get_status and v.get query the instrument;
\* v.get_latest returns the cached value without a query.
QCall(op, ch) == [op |-> op, ch |-> ch]

\* line 115: the channels looked at, range(1, 48) without the used ones
UnusedScanned(cfg) ==
    { el \in 1..(CheckRangeStop - 1) : el \notin SeqRange(used_channels(cfg)) }

\* line 116, in the variant that reads each voltage from the instrument
ReadUnusedVoltage_get(ch) == QCall("v.get", ch)

\* line 116: temp_v = qdac.channels[ch-1].v.get_latest()
ReadUnusedVoltage(ch) == QCall("v.get_latest", ch)

\* line 115: the list of the channels looked at, in ascending order
UnusedScanSeq(cfg) ==
    SelectSeq([ el \in 1..(CheckRangeStop - 1) |-> el ],
              LAMBDA el : el \in UnusedScanned(cfg))

\* the cached readings after calls: _get_status refreshes every channel from
\* the instrument, v.get the channel it reads; v.get_latest refreshes nothing
LatestAfter(latest, live, calls) ==
    [ ch \in DOMAIN latest |->
        IF \E i \in 1..Len(calls) :
              \/ calls[i].op = "_get_status"
              \/ calls[i].op = "v.get" /\ calls[i].ch = ch
        THEN live[ch] ELSE latest[ch] ]

\* lines 106-119: check_unused_qdac_channels
check_unused_qdac_channels(cfg, latest, live) ==
    LET status == << QCall("_get_status", 0) >>
        refreshed == LatestAfter(latest, live, status)
        scan == UnusedScanSeq(cfg)
        reads == [ i \in 1..Len(scan) |-> ReadUnusedVoltage(scan[i]) ]
        temp_v == [ i \in 1..Len(scan) |->
                      [ch |-> scan[i],
                       v |-> LatestAfter(refreshed, live, <<reads[i]>>)[scan[i]]] ]
    IN  [ calls |-> status \o reads,
          warnings |-> SelectSeq(temp_v, LAMBDA w : w.v # RInt(0)),
          latest |-> LatestAfter(refreshed, live, reads) ]

\* line 74-75: print_voltages_all reads every channel from the instrument
PrintReads == [ ch \in 1..NumChannels |-> QCall("v.get", ch) ]

CheckUnusedQdacChannels ==
    /\ LET r == check_unused_qdac_channels(configs, qdac_latest, qdac_live)
       IN  /\ qcalls' = r.calls
           /\ warnings' = r.warnings
           /\ qdac_latest' = r.latest
    /\ rop' = "check_unused_qdac_channels"
    /\ rprev' = rop
    /\ rexc' = NoException
    /\ UNCHANGED <<configs, qdac, qdac_live, lockin_topo, lockin_r, dmm_top,
                   rchan, reloaded, slopes, notReload>>

\* lines 66-77: print_voltages_all
PrintVoltagesAll ==
    /\ LET read == LatestAfter(qdac_latest, qdac_live, PrintReads)
           r == check_unused_qdac_channels(configs, read, qdac_live)
       IN  /\ qcalls' = PrintReads \o r.calls
           /\ warnings' = r.warnings
           /\ qdac_latest' = r.latest
    /\ rop' = "print_voltages_all"
    /\ rprev' = rop
    /\ rexc' = NoException
    /\ UNCHANGED <<configs, qdac, qdac_live, lockin_topo, lockin_r, dmm_top,
                   rchan, reloaded, slopes, notReload>>

\* qdac_slopes as an operation: the caller keeps the mapping it returns
QdacSlopes ==
    /\ slopes' = qdac_slopes(configs)
    /\ rop' = "qdac_slopes"
    /\ rprev' = rop
    /\ rexc' = NoException
    /\ UNCHANGED <<configs, qdac, qdac_latest, qdac_live, lockin_topo,
                   lockin_r, dmm_top, rchan, reloaded, warnings, qcalls, notReload>>


\* Numbers(rangemin, rangemax), line 205
Numbers(rangemin, rangemax) == [min |-> rangemin, max |-> rangemax]

FloatError == ValueError("could not convert string to float")
FormatError == ValueError("Expected: min max. Got chan_range")

\* lines 198-205 in the variant that only asks for at least two tokens
ParseRange_atLeastTwo(chan_range) ==
    LET minmax == Split(chan_range)
    IN  IF Len(minmax) < 2
        THEN [exc |-> FormatError, vldtr |-> Numbers(RInt(0), RInt(0))]
        ELSE IF ~Float(minmax[1]).ok \/ ~Float(minmax[2]).ok
        THEN [exc |-> FloatError, vldtr |-> Numbers(RInt(0), RInt(0))]
        ELSE [exc |-> NoException,
              vldtr |-> Numbers(Float(minmax[1]).val, Float(minmax[2]).val)]

\* lines 198-205: the validator of one configured range string, or the
\* ValueError of line 200 or of float() in lines 202-203
ParseRange(chan_range) ==
    LET minmax == Split(chan_range)
    IN  IF Len(minmax) # 2
        THEN [exc |-> FormatError, vldtr |-> Numbers(RInt(0), RInt(0))]
        ELSE IF ~Float(minmax[1]).ok \/ ~Float(minmax[2]).ok
        THEN [exc |-> FloatError, vldtr |-> Numbers(RInt(0), RInt(0))]
        ELSE [exc |-> NoException,
              vldtr |-> Numbers(Float(minmax[1]).val, Float(minmax[2]).val)]

\* lines 192-206, from channel chan on: the loop stops at the first channel
\* whose range raises; channels without a configured range are skipped
RECURSIVE ReloadRangesFrom(_, _, _)
ReloadRangesFrom(validators, ranges, chan) ==
    IF chan > ReloadRangeStop - 1
    THEN [validators |-> validators, exc |-> NoException, chan |-> 0]
    ELSE IF chan \notin DOMAIN ranges
    THEN ReloadRangesFrom(validators, ranges, chan + 1)
    ELSE LET p == ParseRange(ranges[chan])
         IN  IF p.exc # NoException
             THEN [validators |-> validators, exc |-> p.exc, chan |-> chan]
             ELSE ReloadRangesFrom([validators EXCEPT ![chan] = p.vldtr],
                                   ranges, chan + 1)

\* lines 209-211
LabelsAfter(labels, cfg) ==
    [ ch \in DOMAIN labels |->
        IF ch \in DOMAIN channel_labels(cfg) THEN channel_labels(cfg)[ch]
        ELSE labels[ch] ]

\* line 185 in the variant that scales the division value in place
division_value_scaled(qd, topo_dc) == RMul(qd.division_value, topo_dc)

\* line 185: qdac.topo_bias.division_value = topo_dc
division_value_after(qd, topo_dc) == topo_dc

\* lines 168-211: reload_QDAC_settings
reload_QDAC_settings(cfg, qd) ==
    LET topo_dc == Float(cfg.gains.dc_factor_topo)
        r == ReloadRangesFrom(qd.validators, cfg.ranges, 1)
    IN  IF ~topo_dc.ok THEN [qdac |-> qd, exc |-> FloatError, chan |-> 0]
        ELSE IF r.exc # NoException
        THEN [ qdac |-> [qd EXCEPT
                           !.division_value = division_value_after(qd, topo_dc.val),
                           !.validators = r.validators],
               exc |-> r.exc, chan |-> r.chan ]
        ELSE [ qdac |-> [ division_value |-> division_value_after(qd, topo_dc.val),
                          validators |-> r.validators,
                          labels |-> LabelsAfter(qd.labels, cfg) ],
               exc |-> NoException, chan |-> 0 ]

\* lines 137-165: reload_SR830_settings, the four assignments in order, each
\* float() able to raise
reload_SR830_settings(cfg, topo, right) ==
    LET act == Float(cfg.gains.ac_factor_topo)
        acr == Float(cfg.gains.ac_factor_right)
        ivt == Float(cfg.gains.iv_topo_gain)
        ivr == Float(cfg.gains.iv_right_gain)
        t1 == [topo EXCEPT !.acfactor = act.val]
        r1 == [right EXCEPT !.acfactor = acr.val]
        t2 == [t1 EXCEPT !.ivgain = ivt.val]
        r2 == [r1 EXCEPT !.ivgain = ivr.val]
    IN  IF ~act.ok THEN [topo |-> topo, right |-> right, exc |-> FloatError]
        ELSE IF ~acr.ok THEN [topo |-> t1, right |-> right, exc |-> FloatError]
        ELSE IF ~ivt.ok THEN [topo |-> t1, right |-> r1, exc |-> FloatError]
        ELSE IF ~ivr.ok THEN [topo |-> t2, right |-> r1, exc |-> FloatError]
        ELSE [topo |-> t2, right |-> r2, exc |-> NoException]

\* lines 122-134: reload_DMM_settings
reload_DMM_settings(cfg, dmm) ==
    LET ivt == Float(cfg.gains.iv_topo_gain)
    IN  IF ~ivt.ok THEN [dmm |-> dmm, exc |-> FloatError]
        ELSE [dmm |-> [dmm EXCEPT !.iv_conv = ivt.val], exc |-> NoException]

ReloadQDACSettings ==
    /\ LET r == reload_QDAC_settings(configs, qdac)
       IN  /\ qdac' = r.qdac
           /\ rexc' = r.exc
           /\ rchan' = r.chan
    /\ rop' = "reload_QDAC_settings"
    /\ rprev' = rop
    /\ reloaded' = reloaded \cup {"reload_QDAC_settings"}
    /\ UNCHANGED <<configs, qdac_latest, qdac_live, lockin_topo, lockin_r,
                   dmm_top, warnings, qcalls, slopes, notReload>>

ReloadSR830Settings ==
    /\ LET r == reload_SR830_settings(configs, lockin_topo, lockin_r)
       IN  /\ lockin_topo' = r.topo
           /\ lockin_r' = r.right
           /\ rexc' = r.exc
    /\ rop' = "reload_SR830_settings"
    /\ rprev' = rop
    /\ rchan' = 0
    /\ reloaded' = reloaded \cup {"reload_SR830_settings"}
    /\ UNCHANGED <<configs, qdac, qdac_latest, qdac_live, dmm_top, warnings,
                   qcalls, slopes, notReload>>

ReloadDMMSettings ==
    /\ LET r == reload_DMM_settings(configs, dmm_top)
       IN  /\ dmm_top' = r.dmm
           /\ rexc' = r.exc
    /\ rop' = "reload_DMM_settings"
    /\ rprev' = rop
    /\ rchan' = 0
    /\ reloaded' = reloaded \cup {"reload_DMM_settings"}
    /\ UNCHANGED <<configs, qdac, qdac_latest, qdac_live, lockin_topo,
                   lockin_r, warnings, qcalls, slopes, notReload>>


\* ---- the configurations and instrument states the model starts from ----

DefaultGains ==
    [ dc_factor_topo |-> <<"1", "0", "0">>,
      ac_factor_topo |-> <<"1", "0", "0", "0", "0">>,
      ac_factor_right |-> <<"1", "0", "0", "0", "0">>,
      iv_topo_gain |-> <<"1", "0", "0", "0", "0", "0", "0">>,
      iv_right_gain |-> <<"1", "0", "0", "0", "0", "0", "0", "0">> ]

GainSections ==
    { DefaultGains,
      [DefaultGains EXCEPT !.dc_factor_topo = <<"5">>,
                           !.iv_topo_gain = <<"2", ".", "5">>],
      [DefaultGains EXCEPT !.ac_factor_right = <<"x">>] }

DefaultRampSpeeds ==
    [ max_rampspeed_qdac |-> <<"0", ".", "4">>,
      max_rampspeed_bg |-> <<"0", ".", "1">>,
      max_rampspeed_bias |-> <<"0", ".", "0", "0", "4">> ]

RampSpeedSections ==
    { DefaultRampSpeeds,
      [DefaultRampSpeeds EXCEPT !.max_rampspeed_bg = <<"0", ".", "4">>],
      [DefaultRampSpeeds EXCEPT !.max_rampspeed_qdac = <<"1">>],
      [DefaultRampSpeeds EXCEPT !.max_rampspeed_bias = <<"0", ".", "1">>] }

DefaultChannelParameters ==
    [ topo_bias_channel |-> <<"1", "1">>, backgate_channel |-> <<"3", "2">> ]

ChannelParameterSections ==
    { [ topo_bias_channel |-> b, backgate_channel |-> g ] :
        b \in { <<"1", "1">>, <<"7">> }, g \in { <<"3", "2">>, <<"5">> } }

LabelSections ==
    { (2 :> "Plunger" @@ 5 :> "Cutter" @@ 9 :> "Open"),
      (2 :> "Plunger" @@ 11 :> "Topo Bias" @@ 32 :> "Backgate"),
      (2 :> "Plunger" @@ 5 :> "Cutter" @@ 9 :> "Open" @@ 11 :> "Topo Bias"
         @@ 32 :> "Backgate" @@ 48 :> "Dot Plunger"),
      (47 :> "Spare" @@ 48 :> "Dot Plunger") }

\* range strings: "-1 1", "0 2", "1", "0 1 2", "0  1" (two spaces), "x 2",
\* "1 " (a trailing space)
RangeStrings ==
    { <<"-", "1", " ", "1">>, <<"0", " ", "2">>, <<"1">>,
      <<"0", " ", "1", " ", "2">>, <<"0", " ", " ", "1">>,
      <<"x", " ", "2">>, <<"1", " ">> }

\* section Channel ranges: channels 1, 2 and 48 may each have a range string
RangeSections ==
    { [ ch \in D |-> IF ch = 1 THEN s1 ELSE IF ch = 2 THEN s2 ELSE s48 ] :
        D \in SUBSET {1, 2, 48},
        s1 \in { <<"-", "1", " ", "1">>, <<"x", " ", "2">>, <<"1">> },
        s2 \in RangeStrings,
        s48 \in { <<"0", " ", "2">>, <<"0", " ", "1", " ", "2">> } }

DefaultConfig ==
    [ labels |-> (2 :> "Plunger" @@ 5 :> "Cutter" @@ 9 :> "Open"),
      ranges |-> (1 :> <<"-", "1", " ", "1">>),
      gains |-> DefaultGains,
      ramp_speeds |-> DefaultRampSpeeds,
      channel_parameters |-> DefaultChannelParameters ]

QdacFresh ==
    [ division_value |-> RInt(1),
      validators |-> [ ch \in 1..NumChannels |-> Numbers(RInt(-10), RInt(10)) ],
      labels |-> [ ch \in 1..NumChannels |-> "Voltage" ] ]

QdacConfigured ==
    [ division_value |-> RInt(5),
      validators |-> [ ch \in 1..NumChannels |->
                         IF ch \in {1, 2, 48} THEN Numbers(RInt(-2), RInt(3))
                         ELSE Numbers(RInt(-10), RInt(10)) ],
      labels |-> [ ch \in 1..NumChannels |->
                     IF ch \in {2, 5, 48} THEN "Old label" ELSE "Voltage" ] ]

LockinFresh == [ acfactor |-> RInt(1), ivgain |-> RInt(1) ]
DmmFresh == [ iv_conv |-> RInt(1) ]

AllZero == [ ch \in 1..NumChannels |-> RInt(0) ]

\* the voltages the channels really have: any of channels 2, 3, 47 and 48
\* may be at 0.5 V, all others are at zero
LiveVoltages ==
    { [ ch \in 1..NumChannels |-> IF ch \in S THEN R(1, 2) ELSE RInt(0) ] :
        S \in SUBSET {2, 3, 47, 48} }

ReloadQuiet ==
    /\ rop = "none"
    /\ rprev = "none"
    /\ rexc = NoException
    /\ rchan = 0
    /\ reloaded = {}
    /\ warnings = << >>
    /\ qcalls = << >>
    /\ slopes = << >>
    /\ lockin_topo = LockinFresh
    /\ lockin_r = LockinFresh
    /\ dmm_top = DmmFresh
    /\ qdac_latest = AllZero

\* nothing of reload_settings.py is in use
ReloadIdle ==
    /\ ReloadQuiet
    /\ configs = DefaultConfig
    /\ qdac = QdacFresh
    /\ qdac_live = AllZero

\* the start of the runs of check_unused_qdac_channels
CheckInit ==
    /\ ReloadQuiet
    /\ configs \in { [DefaultConfig EXCEPT !.labels = l] : l \in LabelSections }
    /\ qdac = QdacFresh
    /\ qdac_live \in LiveVoltages

\* the start of the runs of the reload functions
ReloadInit ==
    /\ ReloadQuiet
    /\ configs \in { [DefaultConfig EXCEPT !.ranges = r, !.gains = g] :
                       r \in RangeSections, g \in GainSections }
    /\ qdac \in { QdacFresh, QdacConfigured }
    /\ qdac_live = AllZero

\* the start of the runs of qdac_slopes
SlopesInit ==
    /\ ReloadQuiet
    /\ configs \in { [DefaultConfig EXCEPT !.labels = l, !.ramp_speeds = s,
                                           !.channel_parameters = c] :
                       l \in LabelSections, s \in RampSpeedSections,
                       c \in ChannelParameterSections }
    /\ qdac = QdacFresh
    /\ qdac_live = AllZero


-----------------------------------------------------------------------------
(* Properties of reload_settings.py                                         *)

WarningsNaming(ch) == { i \in 1..Len(warnings) : warnings[i].ch = ch }

\* C3: check_unused_qdac_channels logs exactly one warning, naming the
\* channel, for every channel 1..48 that is not a used channel and whose
\* last-known voltage is not zero, logs none for a used channel or for an
\* unused channel at zero, and does not raise.
C3_WarnsEveryUnusedNonzeroChannel ==
    rop = "check_unused_qdac_channels" =>
        /\ rexc = NoException
        /\ \A ch \in 1..48 :
              Cardinality(WarningsNaming(ch)) =
                 IF ch \notin DOMAIN configs.labels /\ qdac_latest[ch] # RInt(0)
                 THEN 1 ELSE 0

\* C4 as claimed: check_unused_qdac_channels issues no query of the voltage
\* source at all; every call it makes is a read of a cached value.
C4_NoInstrumentQuery ==
    rop = "check_unused_qdac_channels" =>
        \A i \in 1..Len(qcalls) : qcalls[i].op = "v.get_latest"

\* C4, amended: check_unused_qdac_channels issues exactly one query of the
\* voltage source, the status query it starts with (which refreshes the
\* cached readings), and no per-channel live read: every voltage it compares
\* is the cached reading of that channel (get_latest).
C4_OneStatusQueryThenCachedReads ==
    rop = "check_unused_qdac_channels" =>
        /\ Len(qcalls) >= 1
        /\ qcalls[1].op = "_get_status"
        /\ \A i \in 2..Len(qcalls) : qcalls[i].op = "v.get_latest"
        /\ \A i \in 1..Len(warnings) :
              warnings[i].v = qdac_latest[warnings[i].ch]

C4_Witness ==
    /\ rop = "check_unused_qdac_channels"
    /\ rprev = "none"
    /\ Len(qcalls) > 40
    /\ qcalls[1].op = "_get_status"
    /\ Len(warnings) = 1
    /\ warnings[1] = [ch |-> 3, v |-> R(1, 2)]
    /\ DOMAIN configs.labels = {2, 5, 9}

\* the channels with a configured range that does not split into two tokens
NotTwoTokens(cfg) ==
    { ch \in DOMAIN cfg.ranges : Len(Split(cfg.ranges[ch])) # 2 }

\* the channels with a configured range that does not split into two tokens
\* which both convert to a float
NotTwoFloats(cfg) ==
    { ch \in DOMAIN cfg.ranges :
        \/ Len(Split(cfg.ranges[ch])) # 2
        \/ ~Float(Split(cfg.ranges[ch])[1]).ok
        \/ ~Float(Split(cfg.ranges[ch])[2]).ok }

Lowest(S) == CHOOSE x \in S : \A y \in S : x <= y

\* what a failed reload_QDAC_settings step leaves in place when it failed at
\* channel k: the validators from k on, the labels, and below k every
\* validator is the old one or the one of the channel's configured range
FailedAt(k) ==
    /\ rexc'.type = "ValueError"
    /\ rchan' = k
    /\ \A ch \in k..48 : qdac'.validators[ch] = qdac.validators[ch]
    /\ \A ch \in 1..(k - 1) :
          \/ qdac'.validators[ch] = qdac.validators[ch]
          \/ /\ ch \in DOMAIN configs.ranges
             /\ qdac'.validators[ch] =
                  Numbers(Float(Split(configs.ranges[ch])[1]).val,
                          Float(Split(configs.ranges[ch])[2]).val)
    /\ qdac'.labels = qdac.labels

C7_OneSlopePerUsedChannel ==
    rop = "qdac_slopes" =>
        LET bias == ParseInt(configs.channel_parameters.topo_bias_channel).val
            backgate == ParseInt(configs.channel_parameters.backgate_channel).val
        IN  \A ch \in DOMAIN configs.labels :
              /\ ch \in DOMAIN slopes
              /\ slopes[ch] =
                   IF ch = bias
                   THEN Float(configs.ramp_speeds.max_rampspeed_bias).val
                   ELSE IF ch = backgate
                   THEN Float(configs.ramp_speeds.max_rampspeed_bg).val
                   ELSE Float(configs.ramp_speeds.max_rampspeed_qdac).val

\* C8: a reload function that has already run with the configuration file as
\* it is changes nothing when it runs again: gain factors, division value,
\* validators and labels stay as its first run (and the runs of the other
\* reload functions) left them.
C8_ReloadIdempotent ==
    [][ ( /\ rop' \in {"reload_QDAC_settings", "reload_SR830_settings",
                       "reload_DMM_settings"}
          /\ rop' \in reloaded )
        => /\ qdac' = qdac
           /\ lockin_topo' = lockin_topo
           /\ lockin_r' = lockin_r
           /\ dmm_top' = dmm_top
      ]_vars

C8_Witness ==
    /\ rop = "reload_QDAC_settings"
    /\ rprev = "reload_QDAC_settings"
    /\ reloaded = {"reload_QDAC_settings", "reload_SR830_settings",
                   "reload_DMM_settings"}
    /\ rexc = NoException
    /\ qdac.division_value = RInt(5)
    /\ qdac.validators[2] = Numbers(RInt(0), RInt(2))
    /\ qdac.labels[2] = "Plunger"
    /\ lockin_topo.ivgain = R(5, 2)
    /\ dmm_top.iv_conv = R(5, 2)

-----------------------------------------------------------------------------
(* pulsed_experiment_simple.py: sendSequenceToAWG                           *)

ACall(dev, op, val) == [dev |-> dev, op |-> op, val |-> val]

\* the ValueError of lines 117-119; its message lists both rates
RateMismatch(clock, SR) ==
    [ type |-> "ValueError",
      msg |-> "AWG sample rate does not match sequence sample rate. Rates:",
      rates |-> <<clock, SR>> ]

NoAwgException == [type |-> "none", msg |-> "", rates |-> <<0, 0>>]

\* seq.outputForAWGFile(), line 123: the package built from the sequence
outputForAWGFile(sq) == [SR |-> sq.SR, ch1_range |-> sq.ch1_range]

\* line 116 in the variant that lets every sequence through
RatesDiffer_never(clock, SR) == FALSE

\* line 116: awg.clock_freq() != seq.SR
RatesDiffer(clock, SR) == clock # SR

\* lines 103-124: sendSequenceToAWG
sendSequenceToAWG(g, sq) ==
    IF RatesDiffer(g.clock_freq, sq.SR)
    THEN [ awg |-> g, seq |-> sq,
           calls |-> << ACall("awg", "clock_freq", g.clock_freq),
                        ACall("awg", "clock_freq", g.clock_freq) >>,
           exc |-> RateMismatch(g.clock_freq, sq.SR) ]
    ELSE LET ranged == [sq EXCEPT !.ch1_range = <<g.ch1_amp, g.ch1_offset>>]
             package == outputForAWGFile(ranged)
         IN  [ awg |-> [g EXCEPT !.file = package],
               seq |-> ranged,
               calls |-> << ACall("awg", "clock_freq", g.clock_freq),
                            ACall("awg", "ch1_amp", g.ch1_amp),
                            ACall("awg", "ch1_offset", g.ch1_offset),
                            ACall("seq", "setChannelVoltageRange",
                                  <<1, g.ch1_amp, g.ch1_offset>>),
                            ACall("seq", "outputForAWGFile", package),
                            ACall("awg", "make_send_and_load_awg_file", package) >>,
               exc |-> NoAwgException ]

SendSequenceToAWG ==
    /\ LET r == sendSequenceToAWG(awg, seq)
       IN  /\ awg' = r.awg
           /\ seq' = r.seq
           /\ acalls' = r.calls
           /\ aexc' = r.exc
    /\ UNCHANGED notAwg

\* sample rates in Sa/s
AwgClocks == { 1000000000, 1200000000, 600000000, 10000000 }
SeqRates == { 1000000000, 1200000000, 600000000, 100000000 }
AwgAmps == { RInt(1), R(9, 2) }
AwgOffsets == { RInt(0), R(1, 10) }

NoRange == <<RInt(0), RInt(0)>>
NoFile == [SR |-> 0, ch1_range |-> NoRange]

AwgInit ==
    /\ awg \in [ clock_freq : AwgClocks, ch1_amp : AwgAmps,
                 ch1_offset : AwgOffsets, file : {NoFile} ]
    /\ seq \in [ SR : SeqRates, ch1_range : {NoRange} ]
    /\ acalls = << >>
    /\ aexc = NoAwgException

AwgIdle ==
    /\ awg = [ clock_freq |-> 1000000000, ch1_amp |-> RInt(1),
               ch1_offset |-> RInt(0), file |-> NoFile ]
    /\ seq = [ SR |-> 1000000000, ch1_range |-> NoRange ]
    /\ acalls = << >>
    /\ aexc = NoAwgException

\* C6: sendSequenceToAWG ends with the mismatch ValueError, which lists both
\* rates, whenever the generator's clock rate differs from the sequence's
\* sample rate, and then the sequence's channel voltage range is not set and
\* no file is built or sent: sequence and generator are untouched.  When the
\* rates are equal the file is built and sent.
C6_UploadChecksRates ==
    LET sent == { i \in 1..Len(acalls) :
                    acalls[i].op \in { "setChannelVoltageRange",
                                        "outputForAWGFile",
                                        "make_send_and_load_awg_file" } }
    IN  Len(acalls) > 0 =>
          /\ awg.clock_freq # seq.SR =>
                /\ aexc.type = "ValueError"
                /\ aexc.rates = <<awg.clock_freq, seq.SR>>
                /\ sent = {}
                /\ seq.ch1_range = NoRange
                /\ awg.file = NoFile
          /\ awg.clock_freq = seq.SR =>
                /\ aexc = NoAwgException
                /\ acalls[Len(acalls)].op = "make_send_and_load_awg_file"
                /\ awg.file = [SR |-> seq.SR,
                               ch1_range |-> <<awg.ch1_amp, awg.ch1_offset>>]
                /\ seq.ch1_range = <<awg.ch1_amp, awg.ch1_offset>>

C6_Witness ==
    /\ Len(acalls) > 0
    /\ awg.clock_freq = 1200000000
    /\ seq.SR = 1000000000
    /\ aexc = RateMismatch(1200000000, 1000000000)
    /\ awg.file = NoFile


-----------------------------------------------------------------------------
(* pulsed_experiment_simple.py: correctMeasTime                             *)

RECURSIVE Pow2(_)
Pow2(n) == IF n = 0 THEN 1 ELSE 2 * Pow2(n - 1)

\* the number of sample rates, range(17) in line 147
NumRates == 17
\* the smallest number of points, line 143
MinPoints == 4096
\* the highest sample rate, 1.8e9 Sa/s, line 147
TopRate == 1800000000

\* x < y for rationals whose denominators divide TopRate (no overflow)
RLessTicks(x, y) ==
    x[1] * (TopRate \div x[2]) < y[1] * (TopRate \div y[2])

\* line 147: SRs[n] = 1.8e9/2**n.  Sequences are 1-based: index i is n + 1.
SRs == [ i \in 1..NumRates |-> R(TopRate, Pow2(i - 1)) ]

\* lines 154-158
SRstrings ==
    << "1.80 GHz", "900 MHz", "450 MHz", "225 MHz", "113 MHz", "56.2 MHz",
       "28.1 MHz", "14.0 MHz", "7.03 MHz", "3.50 MHz", "1.75 MHz", "880 kHz",
       "440 kHz", "220 kHz", "110 kHz", "54.9 kHz", "27.5 kHz" >>

\* line 149
realtimes(npts) == [ i \in 1..NumRates |-> RDiv(RInt(npts), SRs[i]) ]

\* line 150
errors(meastime, npts) ==
    [ i \in 1..NumRates |-> RAbs(RSub(meastime, realtimes(npts)[i])) ]

\* argmax in place of argmin: the first index of the largest element
argmin_largest(e) ==
    CHOOSE i \in DOMAIN e :
        /\ \A j \in DOMAIN e : ~RLessTicks(e[i], e[j])
        /\ \A j \in DOMAIN e : j < i => RLessTicks(e[j], e[i])

\* numpy's argmin: the first index of the smallest element
argmin(e) ==
    CHOOSE i \in DOMAIN e :
        /\ \A j \in DOMAIN e : ~RLessTicks(e[j], e[i])
        /\ \A j \in DOMAIN e : j < i => RLessTicks(e[i], e[j])

\* line 163: '{:.4e}'.format(x) for x > 0, as the five digits and the decimal
\* exponent of the last of them (x rounded to the nearest digits * 10^exp)
RECURSIVE Format4e(_, _)
Format4e(x, exp) ==
    IF x[1] \div x[2] < 10000 THEN Format4e(RMul(x, RInt(10)), exp - 1)
    ELSE IF x[1] \div x[2] >= 100000 THEN Format4e(RDiv(x, RInt(10)), exp + 1)
    ELSE LET m == (2 * x[1] + x[2]) \div (2 * x[2])
         IN  IF m = 100000 THEN [digits |-> 10000, exp |-> exp + 1]
             ELSE [digits |-> m, exp |-> exp]

\* lines 128-165: correctMeasTime
correctMeasTime(meastime, npts) ==
    IF npts < MinPoints
    THEN [ exc |-> ValueError("Sorry, but npts must be at least 4096."),
           index |-> 0, newtime |-> [digits |-> 0, exp |-> 0], SRstring |-> "" ]
    ELSE LET e == errors(meastime, npts)
             i == argmin(e)
         IN  [ exc |-> NoException,
               index |-> i,
               newtime |-> Format4e(realtimes(npts)[i], 0),
               SRstring |-> SRstrings[i] ]

\* The desired times (seconds) the model draws from: 1, 2, 3, 5 and 7 times a
\* power of ten from 1e-6 on, and the points halfway between two
\* neighbouring realisable times of 4096 points (ties).
MaxDecade == 4

RECURSIVE Pow10Rat(_)
Pow10Rat(n) == IF n = 0 THEN 1 ELSE 10 * Pow10Rat(n - 1)

MeasTimes ==
    { R(k * Pow10Rat(d), 1000000) : k \in {1, 2, 3, 5, 7}, d \in 0..MaxDecade }
    \cup { R(3 * Pow2(n + 2), 3515625) : n \in {0, 7, 15} }

PointCounts == { 4095, 4096, 5000, 8192 }

NoMeasCall ==
    [ meastime |-> RInt(0), npts |-> 0,
      result |-> [ exc |-> NoException, index |-> 0,
                   newtime |-> [digits |-> 0, exp |-> 0], SRstring |-> "" ] ]

MeasIdle == mcall = NoMeasCall

CorrectMeasTime(meastime, npts) ==
    /\ mcall' = [ meastime |-> meastime, npts |-> npts,
                  result |-> correctMeasTime(meastime, npts) ]
    /\ UNCHANGED notMeas

\* C10: for npts >= 4096 and a desired time > 0, correctMeasTime returns the
\* label of one of the 17 rates 1.8e9/2^n, n = 0..16, namely the label of the
\* rate it chose, and no rate of the table gives a strictly smaller
\* |desired_time - npts/rate| than the chosen one.
C10_NearestRealisableRate ==
    ( /\ mcall.npts >= 4096
      /\ mcall.meastime[1] > 0 )
    => LET i == mcall.result.index
           err(n) == Abs(mcall.meastime[1] * (1800000000 \div mcall.meastime[2])
                         - mcall.npts * Pow2(n))
       IN  /\ mcall.result.exc = NoException
           /\ i \in 1..17
           /\ mcall.result.SRstring = SRstrings[i]
           /\ \A n \in 0..16 : ~(err(n) < err(i - 1))

C10_Witness ==
    /\ mcall.npts = 4096
    /\ mcall.meastime = R(1, 1000)
    /\ mcall.result.SRstring = "3.50 MHz"
    /\ mcall.result.newtime = [digits |-> 11651, exp |-> -7]

-----------------------------------------------------------------------------
(* pulsed_experiment_simple.py: makeSimpleSequence                          *)

\* A blueprint is its sample rate, its segments in order and its two marker
\* lists; a segment is [name, func, args, dur].  A 'waituntil' segment has
\* the absolute time as its only argument and no duration of its own.
NoDuration == RInt(0)

\* lines 39-40
trigarmtime == R(100, 1000000)
trigbits == 100

\* bb.BluePrint(): no segments, no markers, no sample rate yet
EmptyBluePrint ==
    [ SR |-> 0, segments |-> << >>, marker1 |-> << >>, marker2 |-> << >> ]

\* BluePrint.insertSegment(pos, func, args, dur, name): the new segment is
\* at position pos (0-based), the segments from there on move up by one
insertSegment(bp, pos, segment) ==
    [ bp EXCEPT !.segments =
        SubSeq(bp.segments, 1, pos) \o << segment >>
        \o SubSeq(bp.segments, pos + 1, Len(bp.segments)) ]

RampSegment(name, level, dur) ==
    [ name |-> name, func |-> "ramp", args |-> <<level, level>>, dur |-> dur ]

WaitUntilSegment(time) ==
    [ name |-> "waituntil", func |-> "waituntil", args |-> <<time>>,
      dur |-> NoDuration ]

\* line 59
area(a) ==
    RAdd(RMul(a.pulsehigh, a.hightime), RMul(a.pulselow, a.meastime))

\* line 60
compensation_duration(a) ==
    RMul(a.compensation_ratio, RAdd(a.hightime, a.meastime))

\* the level with the sign of the pulse's area
compensation_height_sameSign(a) == RDiv(area(a), compensation_duration(a))

\* line 61
compensation_height(a) == RDiv(RNeg(area(a)), compensation_duration(a))

\* lines 46-55: the pulsed part before any compensation
PulseBluePrint(a) ==
    LET b0 == [EmptyBluePrint EXCEPT !.SR = a.SR]
        b1 == insertSegment(b0, 0, RampSegment("high", a.pulsehigh, a.hightime))
        b2 == insertSegment(b1, 1,
                            RampSegment("measure", a.pulselow, a.meastime))
        b3 == insertSegment(b2, 2, WaitUntilSegment(a.cycletime))
        marker == << <<RAdd(a.hightime, a.trig_delay), a.meastime>> >>
    IN  [ b3 EXCEPT !.marker1 = marker, !.marker2 = marker ]

\* lines 57-69: the compensation pre-pulse and the markers moved with it
Compensated(a, bp) ==
    LET marker == << << RAdd(RAdd(a.hightime, a.trig_delay),
                             compensation_duration(a)),
                        a.meastime >> >>
        b == insertSegment(bp, 0,
                           RampSegment("ramp", compensation_height(a),
                                       compensation_duration(a)))
    IN  [ b EXCEPT !.marker1 = marker, !.marker2 = marker ]

\* lines 78-80 without the setSR of line 80
PreTrigBluePrint_noSR(SR) ==
    insertSegment(EmptyBluePrint, 0,
                  RampSegment("ramp", RInt(0), RDiv(trigarmtime, RInt(trigbits))))

\* lines 78-80: the dead time in front of the pulse
PreTrigBluePrint(SR) ==
    [ insertSegment(EmptyBluePrint, 0,
                    RampSegment("ramp", RInt(0),
                                RDiv(trigarmtime, RInt(trigbits))))
      EXCEPT !.SR = SR ]

\* bb.Element() with addBluePrint(1, bp): channel 1 holds the blueprint
Element(bp) == [ channels |-> << bp >> ]

\* seq.setSequenceSettings(pos, wait, nreps, jump, goto)
SequenceSettings(wait, nreps, jump, goto) ==
    [ wait |-> wait, nreps |-> nreps, jump |-> jump, goto |-> goto ]

NoSequence == [ SR |-> 0, elements |-> << >>, settings |-> << >> ]

NegativeRatio == ValueError("compensation_ratio must bea positive number")
ZeroDivisionError == [type |-> "ZeroDivisionError", msg |-> "float division by zero"]

\* lines 9-100: makeSimpleSequence
makeSimpleSequence(a) ==
    IF RLess(a.compensation_ratio, RInt(0))
    THEN [ exc |-> NegativeRatio, seq |-> NoSequence ]
    ELSE IF a.compensation_ratio # RInt(0)
            /\ compensation_duration(a) = RInt(0)
    THEN [ exc |-> ZeroDivisionError, seq |-> NoSequence ]
    ELSE LET bp == PulseBluePrint(a)
             bp1 == IF a.compensation_ratio # RInt(0)
                    THEN Compensated(a, bp) ELSE bp
             pretrigelem == Element(PreTrigBluePrint(a.SR))
             mainelem == Element(bp1)
         IN  [ exc |-> NoException,
               seq |-> [ SR |-> a.SR,
                         elements |-> << pretrigelem, mainelem >>,
                         settings |->
                           << SequenceSettings(0, trigbits, 0, 0),
                              SequenceSettings(0, a.no_of_avgs, 0, 0) >> ] ]

\* The argument values the model draws from: times in seconds, levels in
\* volts, sample rates in Sa/s.
SimpleArgs ==
    [ hightime : { R(1, 1000000), R(2, 1000000) },
      trig_delay : { RInt(0), R(1, 2000000) },
      meastime : { R(2, 1000000), R(5, 1000000) },
      cycletime : { R(10, 1000000), R(20, 1000000) },
      pulsehigh : { RInt(1), R(1, 2) },
      pulselow : { R(-1, 5), RInt(0), RInt(1) },
      no_of_avgs : { 1, 100 },
      SR : { 1000000000, 1200000000 },
      compensation_ratio : { R(-1, 2), RInt(0), R(1, 10), RInt(1) } ]

NoSimpleArgs ==
    [ hightime |-> RInt(0), trig_delay |-> RInt(0), meastime |-> RInt(0),
      cycletime |-> RInt(0), pulsehigh |-> RInt(0), pulselow |-> RInt(0),
      no_of_avgs |-> 0, SR |-> 0, compensation_ratio |-> RInt(0) ]

\* makeSimpleSequence is about to be called with arguments a
SimpleCall(a) ==
    [ called |-> FALSE, args |-> a,
      result |-> [ exc |-> NoException, seq |-> NoSequence ] ]

SimpleIdle == scall = SimpleCall(NoSimpleArgs)

SimpleInit == scall \in { SimpleCall(a) : a \in SimpleArgs }

\* the call of makeSimpleSequence with the arguments at hand
MakeSimpleSequence ==
    /\ ~scall.called
    /\ scall.args \in SimpleArgs
    /\ scall' = [ called |-> TRUE, args |-> scall.args,
                  result |-> makeSimpleSequence(scall.args) ]
    /\ UNCHANGED notSimple

-----------------------------------------------------------------------------
(* Properties of makeSimpleSequence                                         *)

\* the time-integral of a constant segment: level * duration
SegmentIntegral(segment) == RMul(segment.args[1], segment.dur)

\* C11: for every compensation_ratio > 0 the main element starts with a
\* compensation segment, before the high segment, of duration
\* compensation_ratio*(hightime + meastime) and of the constant level
\* -(pulsehigh*hightime + pulselow*meastime)/duration, so that the
\* time-integrals of the compensation, high and measure segments sum to
\* zero; both markers start later by exactly the compensation duration
\* (at hightime + trig_delay + duration) and keep the length meastime.
C11_CompensationPrePulse ==
    ( /\ scall.called
      /\ scall.args.compensation_ratio[1] > 0 )
    => /\ scall.result.exc = NoException
       /\ LET a == scall.args
              bp == scall.result.seq.elements[2].channels[1]
              segs == bp.segments
              dur == RMul(a.compensation_ratio, RAdd(a.hightime, a.meastime))
              pulse == RAdd(RMul(a.pulsehigh, a.hightime),
                            RMul(a.pulselow, a.meastime))
              unshifted == RAdd(a.hightime, a.trig_delay)
          IN  /\ Len(segs) = 4
              /\ segs[1].func = "ramp"
              /\ segs[1].dur = dur
              /\ segs[1].args[1] = segs[1].args[2]
              /\ RMul(segs[1].args[1], dur) = RNeg(pulse)
              /\ segs[2] = [ name |-> "high", func |-> "ramp",
                             args |-> <<a.pulsehigh, a.pulsehigh>>,
                             dur |-> a.hightime ]
              /\ segs[3] = [ name |-> "measure", func |-> "ramp",
                             args |-> <<a.pulselow, a.pulselow>>,
                             dur |-> a.meastime ]
              /\ RAdd(RAdd(SegmentIntegral(segs[1]), SegmentIntegral(segs[2])),
                      SegmentIntegral(segs[3])) = RInt(0)
              /\ bp.marker1 = << <<RAdd(unshifted, dur), a.meastime>> >>
              /\ bp.marker2 = << <<RAdd(unshifted, dur), a.meastime>> >>

C11_Witness ==
    /\ scall.called
    /\ scall.args.compensation_ratio = R(1, 10)
    /\ scall.args.pulsehigh = RInt(1)
    /\ scall.args.hightime = R(1, 1000000)
    /\ scall.args.pulselow = R(-1, 5)
    /\ scall.args.meastime = R(2, 1000000)
    /\ scall.args.trig_delay = RInt(0)
    /\ scall.result.seq.elements[2].channels[1].segments[1] =
         [ name |-> "ramp", func |-> "ramp", args |-> <<RInt(-2), RInt(-2)>>,
           dur |-> R(3, 10000000) ]
    /\ scall.result.seq.elements[2].channels[1].marker1 =
         << <<R(13, 10000000), R(2, 1000000)>> >>

\* what C12 says of a returned sequence, but for the number of times step 1
\* plays: two steps, the constant-zero pre-element first (no wait, no jump,
\* no goto), the pulse element second, repeated no_of_avgs times, and one
\* sample rate SR on both elements and on the sequence
TwoStepSequence ==
    LET a == scall.args
        q == scall.result.seq
        pre == q.elements[1].channels[1]
        main == q.elements[2].channels[1]
    IN  /\ Len(q.elements) = 2
        /\ Len(q.settings) = 2
        /\ Len(pre.segments) >= 1
        /\ \A i \in 1..Len(pre.segments) :
              pre.segments[i].args = <<RInt(0), RInt(0)>>
        /\ q.settings[1].wait = 0
        /\ q.settings[1].jump = 0
        /\ q.settings[1].goto = 0
        /\ \E i \in 1..Len(main.segments) :
              /\ main.segments[i].name = "high"
              /\ main.segments[i + 1].name = "measure"
        /\ q.settings[2].nreps = a.no_of_avgs
        /\ pre.SR = a.SR
        /\ main.SR = a.SR
        /\ q.SR = a.SR

\* C12 as claimed: the returned sequence has exactly two steps, step 1 the
\* constant-zero pre-element set to play once with no jump, step 2 the main
\* pulse element set to repeat no_of_avgs times, and both elements and the
\* sequence carry the sample rate SR.
C12_PreElementPlaysOnce ==
    ( scall.called /\ scall.result.exc = NoException )
    => /\ TwoStepSequence
       /\ scall.result.seq.settings[1].nreps = 1

\* C12, amended: the returned sequence has exactly two steps, step 1 the
\* constant-zero pre-element of 1 us set to repeat 100 times (100 us of dead
\* time in all) with no wait, no jump and no goto, step 2 the main pulse
\* element set to repeat no_of_avgs times, and both elements and the
\* sequence carry the sample rate SR.
C12_PreElementRepeatsTrigbits ==
    ( scall.called /\ scall.result.exc = NoException )
    => /\ TwoStepSequence
       /\ scall.result.seq.settings[1].nreps = 100
       /\ LET pre == scall.result.seq.elements[1].channels[1]
          IN  /\ Len(pre.segments) = 1
              /\ pre.segments[1].dur = R(1, 1000000)

C12_Witness ==
    /\ scall.called
    /\ scall.args.compensation_ratio = RInt(0)
    /\ scall.args.no_of_avgs = 100
    /\ scall.args.SR = 1200000000
    /\ scall.result.exc = NoException
    /\ scall.result.seq.SR = 1200000000
    /\ Len(scall.result.seq.elements) = 2
    /\ scall.result.seq.settings =
         << [wait |-> 0, nreps |-> 100, jump |-> 0, goto |-> 0],
            [wait |-> 0, nreps |-> 100, jump |-> 0, goto |-> 0] >>
    /\ Len(scall.result.seq.elements[2].channels[1].segments) = 3

-----------------------------------------------------------------------------
(* The specifications                                                       *)

FastQuiet ==
    /\ FastIdle
    /\ keysight.ch1_output = "OFF"
    /\ keysight.ch2_output = "OFF"

InitFast == FastIdle /\ ReloadIdle /\ AwgIdle /\ MeasIdle /\ SimpleIdle

NextFast ==
    \/ \E a \in FastArgs : FastChargeDiagram(a)
    \/ Do1dReturns
    \/ Do1dInterrupted
    \/ Do1dRaises

SpecFast == InitFast /\ [][NextFast]_vars

InitCheck == FastQuiet /\ CheckInit /\ AwgIdle /\ MeasIdle /\ SimpleIdle

NextCheck ==
    \/ CheckUnusedQdacChannels
    \/ PrintVoltagesAll

SpecCheck == InitCheck /\ [][NextCheck]_vars

InitReload == FastQuiet /\ ReloadInit /\ AwgIdle /\ MeasIdle /\ SimpleIdle

NextReload ==
    \/ ReloadQDACSettings
    \/ ReloadSR830Settings
    \/ ReloadDMMSettings

SpecReload == InitReload /\ [][NextReload]_vars

InitSlopes == FastQuiet /\ SlopesInit /\ AwgIdle /\ MeasIdle /\ SimpleIdle

NextSlopes == QdacSlopes

SpecSlopes == InitSlopes /\ [][NextSlopes]_vars

InitAwg == FastQuiet /\ ReloadIdle /\ AwgInit /\ MeasIdle /\ SimpleIdle

NextAwg == SendSequenceToAWG

SpecAwg == InitAwg /\ [][NextAwg]_vars

InitMeas == FastQuiet /\ ReloadIdle /\ AwgIdle /\ MeasIdle /\ SimpleIdle

NextMeas ==
    \E meastime \in MeasTimes, npts \in PointCounts :
        CorrectMeasTime(meastime, npts)

SpecMeas == InitMeas /\ [][NextMeas]_vars

InitSimple == FastQuiet /\ ReloadIdle /\ AwgIdle /\ MeasIdle /\ SimpleInit

NextSimple == MakeSimpleSequence

SpecSimple == InitSimple /\ [][NextSimple]_vars

=============================================================================
